---- MODULE Spec2Model ----
(***************************************************************************)
(* A model of src/main.py: the Bitbucket pull-request review pipe.         *)
(*                                                                         *)
(* Text is modelled as a sequence of one-character strings, so that        *)
(* str.split, str.startswith, re.match and int() are computed as Python    *)
(* computes them.  An optional Python value (None or a value) is a         *)
(* sequence of length at most one: None is <<>> and a value v is <<v>>.    *)
(*                                                                         *)
(* The services are inputs: the diff service answers with a text or an     *)
(* HTTP error, tiktoken with a token count, the completion service with a  *)
(* JSON object or an error, the comment service with success or an HTTP    *)
(* error.  Logging, and get_files_with_diffs, which only feeds the log,    *)
(* change no state and are left out.  The parsed completion is a JSON      *)
(* object whose feedback values are text.                                  *)
(*                                                                         *)
(* Three specifications share the actions:                                 *)
(*   Spec           one whole run of the pipe, from construction;          *)
(*   SpecSplitter   BitbucketApiService.fetch_diffs on bounded inputs;     *)
(*   SpecPublisher  CodeReviewPipe.add_comments on bounded mappings.       *)
(***************************************************************************)
EXTENDS Integers, Sequences, FiniteSets, TLC

VARIABLES
    pc,                        \* position of the run
    error,                     \* the exception that ended the run, "" if none
    auth,                      \* self.auth_method_bitbucket
    workspace,                 \* self.workspace (optional)
    repo_slug,                 \* self.repo_slug (optional)
    files_to_review,           \* self.files_to_review (optional text)
    user_message_content,      \* self.user_message_content (optional text)
    pull_request_id,           \* run's pull_request_id (optional)
    diffs_text,                \* fetch_diffs' argument diffs
    filenames,                 \* fetch_diffs' argument filenames
    delimiter,                 \* fetch_diffs' argument delimiter
    diffs_to_review,           \* fetch_diffs' result
    num_tokens,                \* get_code_review's num_tokens (optional)
    chat_gpt_token_limit,      \* get_code_review's chat_gpt_token_limit
    code_review,               \* run's code_review (optional)
    data,                      \* add_comments' argument data, in insertion order
    idx,                       \* add_comments' loop position in data
    added_suggestions_counter, \* add_comments' counter
    files_with_comments,       \* add_comments' list
    returned,                  \* add_comments' return value (optional)
    calls,                     \* every network call attempted, in order
    posted                     \* the comments that exist on the pull request

vars == <<pc, error, auth, workspace, repo_slug, files_to_review,
          user_message_content, pull_request_id, diffs_text, filenames,
          delimiter, diffs_to_review, num_tokens, chat_gpt_token_limit,
          code_review, data, idx, added_suggestions_counter,
          files_with_comments, returned, calls, posted>>

----------------------------------------------------------------------------
(* Bounds *)

MaxEncTokens == 1
MaxSuggestions == 2
MaxDiffLen == 4
MaxFilenames == 2
MaxKeyLen == 4
MaxData == 1

----------------------------------------------------------------------------
(* Python values *)

None == <<>>
Some(v) == <<v>>
Truthy(opt) == opt # None /\ opt[1] # <<>>

StringsUpTo(alphabet, n) == UNION {[1..k -> alphabet] : k \in 0..n}

SetMin(S) == CHOOSE x \in S : \A y \in S : x <= y
SetMax(S) == CHOOSE x \in S : \A y \in S : x >= y

\* str.startswith
StartsWith(s, prefix) ==
    /\ Len(prefix) <= Len(s)
    /\ SubSeq(s, 1, Len(prefix)) = prefix

\* str.find: the lowest position of sep in s, 0 when there is none
Find(s, sep) ==
    LET at == {i \in 1..(Len(s) - Len(sep) + 1) :
                   SubSeq(s, i, i + Len(sep) - 1) = sep}
    IN  IF at = {} THEN 0 ELSE SetMin(at)

\* str.split(sep) for a non-empty sep: left to right, non-overlapping
RECURSIVE Split(_, _)
Split(s, sep) ==
    LET p == Find(s, sep)
    IN  IF p = 0
        THEN <<s>>
        ELSE <<SubSeq(s, 1, p - 1)>> \o Split(SubSeq(s, p + Len(sep), Len(s)), sep)

RECURSIVE Concat(_)
Concat(ss) == IF ss = <<>> THEN <<>> ELSE Head(ss) \o Concat(Tail(ss))

----------------------------------------------------------------------------
(* BitbucketApiService *)

DIFF_DELIMITER == <<"d","i","f","f"," ","-","-","g","i","t"," ","a","/">>

\* fetch_diffs: the nested comprehension yields a chunk once per filename
\* that prefixes it
fetch_diffs(diffs, names, delim) ==
    LET chunks == Split(diffs, delim)
        PerChunk(diff) ==
            LET hits == SelectSeq(names, LAMBDA f : StartsWith(diff, f))
            IN  [j \in 1..Len(hits) |-> delim \o diff]
    IN  IF names # <<>>
        THEN Concat([i \in 1..Len(chunks) |-> PerChunk(chunks[i])])
        ELSE [i \in 1..Len(chunks) |-> delim \o chunks[i]]

\* A call of the Bitbucket or the completion API, as it was attempted
Call(op, to, path, raw, ok) ==
    [op |-> op, to |-> to, path |-> path, raw |-> raw, ok |-> ok]

----------------------------------------------------------------------------
(* AiService *)

\* num_tokens_from_messages: 4 per message, the encoded length of every
\* value (tiktoken's, an input here), 2 for the reply; no message has a
\* "name" key
num_tokens_from_messages(n_messages, encoded) == 4 * n_messages + encoded + 2

----------------------------------------------------------------------------
(* CodeReviewPipe *)

\* resolve_auth
resolve_auth(username, password, token) ==
    IF username /\ password THEN "basic"
    ELSE IF token THEN "token"
    ELSE "raise"

\* get_diffs_to_review: the allowlist handed to fetch_diffs
FilesToReviewList(files) ==
    IF Truthy(files) /\ Split(files[1], <<",">>) # <<>>
    THEN Split(files[1], <<",">>)
    ELSE <<>>

\* get_code_review: the messages are the default prompt, the optional user
\* message and the diffs
MessageCount(message) == IF Truthy(message) THEN 3 ELSE 2

TokenLimitExceeded_OffByOne(tokens, limit) == limit # 0 /\ tokens > limit + 1

\* get_code_review: the token ceiling test
TokenLimitExceeded(tokens, limit) == limit # 0 /\ tokens > limit

\* \d of the pattern, for the ASCII digits
IsDigit(c) == c \in {"0", "1", "2", "3", "4", "5", "6", "7", "8", "9"}

DigitValue(c) ==
    CASE c = "0" -> 0 [] c = "1" -> 1 [] c = "2" -> 2 [] c = "3" -> 3
      [] c = "4" -> 4 [] c = "5" -> 5 [] c = "6" -> 6 [] c = "7" -> 7
      [] c = "8" -> 8 [] c = "9" -> 9

\* int(line) of a string of digits
RECURSIVE PyInt(_)
PyInt(digits) ==
    IF digits = <<>>
    THEN 0
    ELSE 10 * PyInt(SubSeq(digits, 1, Len(digits) - 1)) + DigitValue(digits[Len(digits)])

\* The end of the run of digits of key that starts at position from
RECURSIVE DigitRunEnd(_, _)
DigitRunEnd(key, from) ==
    IF from < Len(key) /\ IsDigit(key[from + 1])
    THEN DigitRunEnd(key, from + 1)
    ELSE from

\* re.match(r"(.+):(\d+)", key): anchored at the start of key only.  The greedy
\* (.+) ends before the last ':' that a digit follows and holds no newline;
\* the greedy (\d+) takes the digits after that ':' and the rest of key is
\* not looked at.
MatchFilenameLine(key) ==
    LET ends == {p \in 1..(Len(key) - 2) :
                     /\ \A i \in 1..p : key[i] # "\n"
                     /\ key[p + 1] = ":"
                     /\ IsDigit(key[p + 2])}
    IN  IF ends = {}
        THEN [matched |-> FALSE, filename |-> <<>>, line |-> <<>>]
        ELSE LET p == SetMax(ends)
             IN  [matched |-> TRUE,
                  filename |-> SubSeq(key, 1, p),
                  line |-> SubSeq(key, p + 2, DigitRunEnd(key, p + 2))]

\* add_comments: the test that guards the publication of an entry
ShouldPublish(entry) ==
    MatchFilenameLine(entry.key).matched /\ Len(entry.content) # 0

\* add_comments: the payload of an entry's inline comment
InlinePayload(entry, ok) ==
    LET m == MatchFilenameLine(entry.key)
    IN  Call("inline", PyInt(m.line), m.filename, entry.content, ok)

NextCounter_CountsSkipped(counter, published) == counter + 1

\* add_comments: the counter after an entry, published or skipped
NextCounter(counter, published) == IF published THEN counter + 1 ELSE counter

RaiseForStatus_Swallowed(position) == position

\* requests' raise_for_status on a failed response: the exception is caught
\* nowhere and ends the run
RaiseForStatus(position) == "failed"

\* dict.get on the parsed response
Get(review, field) == review[1][field]

----------------------------------------------------------------------------
(* Inputs *)

\* FILES_TO_REVIEW: unset, a file of the diff, a file no diff has
FilesToReviewValues == {None, Some(<<"a">>), Some(<<"z">>)}

\* The diff service's answers: no diff, the diff of two files
DiffTexts ==
    { <<>>,
      DIFF_DELIMITER \o <<"a", " ", "b", "/", "a">> \o
          DIFF_DELIMITER \o <<"b", " ", "b", "/", "b">> }

\* CHATGPT_PROMPT_MAX_TOKENS: unset (0) or a ceiling
TokenLimits == {0, 10}

\* The keys and the feedback of the completion's suggestions
ReviewKeys == { <<"a", ":", "1">>, <<"a", ":", "2">>, <<"b", ":", "1">>, <<"a">> }
Contents == { <<>>, <<"c">> }
Summaries == { None, Some(<<>>), Some(<<"s">>) }

\* A mapping in insertion order: no key twice
IsMapping(entries) ==
    \A i, j \in 1..Len(entries) : entries[i].key = entries[j].key => i = j

Mappings(keys, n) ==
    {m \in UNION {[1..k -> [key : keys, content : Contents]] : k \in 0..n} :
         IsMapping(m)}

\* The parsed completion: summary and suggestions, either of them absent
Reviews ==
    [summary : Summaries,
     suggestions : {None} \cup {Some(m) : m \in Mappings(ReviewKeys, MaxSuggestions)}]

KeyAlphabet == {"a", ":", "1", "0"}
PublisherMappings == Mappings(StringsUpTo(KeyAlphabet, MaxKeyLen), MaxData)

SplitAlphabet == {"d", "/", "a"}
SplitDelimiters == { <<"d">>, <<"d", "/">> }
SplitFilenames ==
    UNION {[1..k -> { <<>>, <<"a">>, <<"a", "a">> }] : k \in 0..MaxFilenames}
----------------------------------------------------------------------------
(* One run of the pipe *)

Init ==
    /\ pc = "new"
    /\ error = ""
    /\ auth = ""
    /\ workspace = None
    /\ repo_slug = None
    /\ files_to_review = None
    /\ user_message_content = None
    /\ pull_request_id = None
    /\ diffs_text = <<>>
    /\ filenames = <<>>
    /\ delimiter = <<>>
    /\ diffs_to_review = <<>>
    /\ num_tokens = None
    /\ chat_gpt_token_limit = 0
    /\ code_review = None
    /\ data = <<>>
    /\ idx = 0
    /\ added_suggestions_counter = 0
    /\ files_with_comments = <<>>
    /\ returned = None
    /\ calls = <<>>
    /\ posted = <<>>

\* The run ends with an exception that nothing catches
Raise(exception) ==
    /\ pc' = "failed"
    /\ error' = exception

\* CodeReviewPipe(): resolve_auth, then the environment is read into the
\* object; only the missing credentials raise
Construct ==
    /\ pc = "new"
    /\ \E username \in BOOLEAN, password \in BOOLEAN, token \in BOOLEAN :
         LET method == resolve_auth(username, password, token)
         IN  IF method = "raise"
             THEN /\ Raise("ValueError")
                  /\ UNCHANGED <<auth, workspace, repo_slug, files_to_review,
                                 user_message_content>>
             ELSE /\ auth' = method
                  /\ workspace' \in {None, Some("workspace")}
                  /\ repo_slug' \in {None, Some("repo")}
                  /\ files_to_review' \in FilesToReviewValues
                  /\ user_message_content' \in {None, Some(<<"m">>)}
                  /\ pc' = "constructed"
                  /\ error' = error
    /\ UNCHANGED <<pull_request_id, diffs_text, filenames, delimiter,
                   diffs_to_review, num_tokens, chat_gpt_token_limit,
                   code_review, data, idx, added_suggestions_counter,
                   files_with_comments, returned, calls, posted>>

\* run, to the test of diffs_to_review: BITBUCKET_PR_ID is read, the diff is
\* fetched and split; an empty result ends the run
RunGetDiffs ==
    /\ pc = "constructed"
    /\ \E pr \in {None, Some("1")} :
         IF pr = None
         THEN /\ Raise("EnvironmentError")
              /\ UNCHANGED <<pull_request_id, diffs_text, filenames, delimiter,
                             diffs_to_review, calls>>
         ELSE /\ pull_request_id' = pr
              /\ \/ /\ calls' = Append(calls, Call("diff", 0, <<>>, <<>>, FALSE))
                    /\ pc' = RaiseForStatus(pc)
                    /\ error' = "HTTPError"
                    /\ UNCHANGED <<diffs_text, filenames, delimiter, diffs_to_review>>
                 \/ \E text \in DiffTexts :
                      LET names == FilesToReviewList(files_to_review)
                          diffs == fetch_diffs(text, names, DIFF_DELIMITER)
                      IN  /\ calls' = Append(calls, Call("diff", 0, <<>>, <<>>, TRUE))
                          /\ diffs_text' = text
                          /\ filenames' = names
                          /\ delimiter' = DIFF_DELIMITER
                          /\ diffs_to_review' = diffs
                          /\ pc' = IF diffs = <<>> THEN "done" ELSE "review"
                          /\ error' = error
    /\ UNCHANGED <<auth, workspace, repo_slug, files_to_review,
                   user_message_content, num_tokens, chat_gpt_token_limit,
                   code_review, data, idx, added_suggestions_counter,
                   files_with_comments, returned, posted>>

\* run from the client's construction to code_review.get: the client
\* parameters are loaded, get_code_review counts the tokens, returns None over
\* the ceiling, else calls the completion and parses its answer.  run then
\* calls .get on what get_code_review returned, None included.
GetCodeReview ==
    /\ pc = "review"
    /\ \/ /\ Raise("FileNotFoundError")
          /\ UNCHANGED <<num_tokens, chat_gpt_token_limit, code_review, calls>>
       \/ \E encoded \in 0..MaxEncTokens, limit \in TokenLimits :
            LET tokens == num_tokens_from_messages(
                              MessageCount(user_message_content), encoded)
            IN  /\ num_tokens' = Some(tokens)
                /\ chat_gpt_token_limit' = limit
                /\ IF TokenLimitExceeded(tokens, limit)
                   THEN /\ Raise("AttributeError")
                        /\ UNCHANGED <<code_review, calls>>
                   ELSE \/ /\ Raise("FileNotFoundError")
                           /\ UNCHANGED <<code_review, calls>>
                        \/ /\ calls' = Append(calls, Call("completion", 0, <<>>, <<>>, FALSE))
                           /\ Raise("BadRequestError")
                           /\ UNCHANGED code_review
                        \/ /\ calls' = Append(calls, Call("completion", 0, <<>>, <<>>, TRUE))
                           /\ Raise("JSONDecodeError")
                           /\ UNCHANGED code_review
                        \/ \E review \in Reviews :
                             /\ calls' = Append(calls, Call("completion", 0, <<>>, <<>>, TRUE))
                             /\ code_review' = Some(review)
                             /\ pc' = "summary"
                             /\ error' = error
    /\ UNCHANGED <<auth, workspace, repo_slug, files_to_review,
                   user_message_content, pull_request_id, diffs_text, filenames,
                   delimiter, diffs_to_review, data, idx,
                   added_suggestions_counter, files_with_comments, returned,
                   posted>>

\* run: if summary: add_summary
AddSummary ==
    /\ pc = "summary"
    /\ LET summary == Get(code_review, "summary")
       IN  IF Truthy(summary)
           THEN \/ /\ calls' = Append(calls, Call("summary", 0, <<>>, summary[1], FALSE))
                   /\ pc' = RaiseForStatus(pc)
                   /\ error' = "HTTPError"
                   /\ UNCHANGED posted
                \/ /\ calls' = Append(calls, Call("summary", 0, <<>>, summary[1], TRUE))
                   /\ posted' = Append(posted, Call("summary", 0, <<>>, summary[1], TRUE))
                   /\ pc' = "comments"
                   /\ error' = error
           ELSE /\ pc' = "comments"
                /\ UNCHANGED <<error, calls, posted>>
    /\ UNCHANGED <<auth, workspace, repo_slug, files_to_review,
                   user_message_content, pull_request_id, diffs_text, filenames,
                   delimiter, diffs_to_review, num_tokens, chat_gpt_token_limit,
                   code_review, data, idx, added_suggestions_counter,
                   files_with_comments, returned>>

\* run's call of add_comments, to the head of its loop: data.items() of the
\* suggestions, None when the response has none
AddCommentsEnter ==
    /\ pc = "comments"
    /\ LET suggestions == Get(code_review, "suggestions")
       IN  IF suggestions = None
           THEN /\ Raise("AttributeError")
                /\ UNCHANGED <<data, idx>>
           ELSE /\ data' = suggestions[1]
                /\ idx' = 1
                /\ pc' = "loop"
                /\ error' = error
    /\ UNCHANGED <<auth, workspace, repo_slug, files_to_review,
                   user_message_content, pull_request_id, diffs_text, filenames,
                   delimiter, diffs_to_review, num_tokens, chat_gpt_token_limit,
                   code_review, added_suggestions_counter, files_with_comments,
                   returned, calls, posted>>

\* add_comments: one iteration of the loop over data.items()
AddCommentsStep ==
    /\ pc = "loop"
    /\ idx <= Len(data)
    /\ LET entry == data[idx]
           published == ShouldPublish(entry)
       IN  IF published
           THEN \/ /\ calls' = Append(calls, InlinePayload(entry, FALSE))
                   /\ pc' = RaiseForStatus(pc)
                   /\ error' = "HTTPError"
                   /\ UNCHANGED <<idx, added_suggestions_counter,
                                  files_with_comments, posted>>
                \/ /\ calls' = Append(calls, InlinePayload(entry, TRUE))
                   /\ posted' = Append(posted, InlinePayload(entry, TRUE))
                   /\ files_with_comments' =
                          Append(files_with_comments, MatchFilenameLine(entry.key).filename)
                   /\ added_suggestions_counter' =
                          NextCounter(added_suggestions_counter, published)
                   /\ idx' = idx + 1
                   /\ UNCHANGED <<pc, error>>
           ELSE /\ added_suggestions_counter' =
                       NextCounter(added_suggestions_counter, published)
                /\ idx' = idx + 1
                /\ UNCHANGED <<pc, error, files_with_comments, calls, posted>>
    /\ UNCHANGED <<auth, workspace, repo_slug, files_to_review,
                   user_message_content, pull_request_id, diffs_text, filenames,
                   delimiter, diffs_to_review, num_tokens, chat_gpt_token_limit,
                   code_review, data, returned>>

\* add_comments' return, and run's to its end
AddCommentsReturn ==
    /\ pc = "loop"
    /\ idx > Len(data)
    /\ returned' = Some([files |-> {files_with_comments[i] :
                                        i \in 1..Len(files_with_comments)},
                         count |-> added_suggestions_counter])
    /\ pc' = "done"
    /\ UNCHANGED <<error, auth, workspace, repo_slug, files_to_review,
                   user_message_content, pull_request_id, diffs_text, filenames,
                   delimiter, diffs_to_review, num_tokens, chat_gpt_token_limit,
                   code_review, data, idx, added_suggestions_counter,
                   files_with_comments, calls, posted>>

Next ==
    \/ Construct
    \/ RunGetDiffs
    \/ GetCodeReview
    \/ AddSummary
    \/ AddCommentsEnter
    \/ AddCommentsStep
    \/ AddCommentsReturn

Spec == Init /\ [][Next]_vars

----------------------------------------------------------------------------
(* fetch_diffs alone *)

InitSplitter ==
    /\ pc = "split"
    /\ error = ""
    /\ auth = ""
    /\ workspace = None
    /\ repo_slug = None
    /\ files_to_review = None
    /\ user_message_content = None
    /\ pull_request_id = None
    /\ diffs_text \in StringsUpTo(SplitAlphabet, MaxDiffLen)
    /\ filenames \in SplitFilenames
    /\ delimiter \in SplitDelimiters
    /\ diffs_to_review = <<>>
    /\ num_tokens = None
    /\ chat_gpt_token_limit = 0
    /\ code_review = None
    /\ data = <<>>
    /\ idx = 0
    /\ added_suggestions_counter = 0
    /\ files_with_comments = <<>>
    /\ returned = None
    /\ calls = <<>>
    /\ posted = <<>>

FetchDiffs ==
    /\ pc = "split"
    /\ diffs_to_review' = fetch_diffs(diffs_text, filenames, delimiter)
    /\ pc' = "fetched"
    /\ UNCHANGED <<error, auth, workspace, repo_slug, files_to_review,
                   user_message_content, pull_request_id, diffs_text, filenames,
                   delimiter, num_tokens, chat_gpt_token_limit, code_review,
                   data, idx, added_suggestions_counter, files_with_comments,
                   returned, calls, posted>>

NextSplitter == FetchDiffs

SpecSplitter == InitSplitter /\ [][NextSplitter]_vars

----------------------------------------------------------------------------
(* add_comments alone *)

InitPublisher ==
    /\ pc = "loop"
    /\ error = ""
    /\ auth = ""
    /\ workspace = None
    /\ repo_slug = None
    /\ files_to_review = None
    /\ user_message_content = None
    /\ pull_request_id = Some("1")
    /\ diffs_text = <<>>
    /\ filenames = <<>>
    /\ delimiter = <<>>
    /\ diffs_to_review = <<>>
    /\ num_tokens = None
    /\ chat_gpt_token_limit = 0
    /\ code_review = None
    /\ data \in PublisherMappings
    /\ idx = 1
    /\ added_suggestions_counter = 0
    /\ files_with_comments = <<>>
    /\ returned = None
    /\ calls = <<>>
    /\ posted = <<>>

NextPublisher ==
    \/ AddCommentsStep
    \/ AddCommentsReturn

SpecPublisher == InitPublisher /\ [][NextPublisher]_vars
----------------------------------------------------------------------------
(* Properties *)

CallsOf(ops) == SelectSeq(calls, LAMBDA c : c.op \in ops)
InlineCalls == CallsOf({"inline"})
CommentCalls == CallsOf({"summary", "inline"})

\* C1: when the token ceiling is nonzero and the computed token count exceeds
\* it, the run ends as a deliberate skip: it does not fail, and no comment is
\* posted.
C1_TokenSkipEndsSuccessfully ==
    (/\ num_tokens # None
     /\ chat_gpt_token_limit # 0
     /\ num_tokens[1] > chat_gpt_token_limit)
    => /\ pc # "failed"
       /\ error = ""
       /\ CommentCalls = <<>>
       /\ posted = <<>>

\* C2: the completion service is invoked only if the splitter returned a
\* non-empty chunk sequence and the token ceiling is 0 or the token count does
\* not exceed it; and no summary or inline comment is posted, or attempted, in a
\* run in which the completion service was not invoked.
C2_CompletionGuarded ==
    /\ CallsOf({"completion"}) # <<>> =>
           /\ diffs_to_review # <<>>
           /\ num_tokens # None
           /\ \/ chat_gpt_token_limit = 0
              \/ num_tokens[1] <= chat_gpt_token_limit
    /\ (CommentCalls # <<>> \/ posted # <<>>) => CallsOf({"completion"}) # <<>>

\* A run under a nonzero ceiling that the token count just meets, whose
\* completion was invoked and whose comment is posted
C2_Witness ==
    /\ CallsOf({"completion"}) # <<>>
    /\ chat_gpt_token_limit # 0
    /\ num_tokens = Some(chat_gpt_token_limit)
    /\ posted # <<>>

\* str.count: the non-overlapping occurrences of sep in s
RECURSIVE Occurrences(_, _)
Occurrences(s, sep) ==
    LET p == Find(s, sep)
    IN  IF p = 0 THEN 0 ELSE 1 + Occurrences(SubSeq(s, p + Len(sep), Len(s)), sep)

\* C3: without an allowlist fetch_diffs returns exactly N chunks, N the number
\* of occurrences of the delimiter in the diff text, each starting with the
\* delimiter; an empty diff text gives an empty sequence.
C3_OneChunkPerDelimiter ==
    (pc = "fetched" /\ filenames = <<>>) =>
        /\ Len(diffs_to_review) = Occurrences(diffs_text, delimiter)
        /\ \A i \in 1..Len(diffs_to_review) : StartsWith(diffs_to_review[i], delimiter)

\* C4: with a non-empty allowlist fetch_diffs returns exactly the chunks whose
\* text after the delimiter begins with an allowlisted filename, each once and
\* in its original order.
C4_AllowlistSelectsEachChunkOnce ==
    (pc = "fetched" /\ filenames # <<>>) =>
        LET all == fetch_diffs(diffs_text, <<>>, delimiter)
            Listed(chunk) ==
                \E k \in 1..Len(filenames) :
                    StartsWith(SubSeq(chunk, Len(delimiter) + 1, Len(chunk)), filenames[k])
        IN  diffs_to_review = SelectSeq(all, Listed)

\* The position of the last ':' of key, 0 when it has none
LastColon(key) ==
    LET at == {i \in 1..Len(key) : key[i] = ":"}
    IN  IF at = {} THEN 0 ELSE SetMax(at)

\* key is <path>:<digits>, the digits running to the end of key
IsLocationKey(key) ==
    LET c == LastColon(key)
    IN  /\ c > 1
        /\ c < Len(key)
        /\ \A i \in (c + 1)..Len(key) : IsDigit(key[i])

LocationComment(entry) ==
    LET c == LastColon(entry.key)
    IN  Call("inline", PyInt(SubSeq(entry.key, c + 1, Len(entry.key))),
             SubSeq(entry.key, 1, c - 1), entry.content, TRUE)

\* C5: add_comments publishes an entry if and only if its whole key is
\* <path>:<digits> and its body is not empty, at the path before the final
\* ':<digits>' and the line the digits spell; every other entry is skipped.
C5_PublishedIffLocationKey ==
    pc = "done" =>
        LET wanted == SelectSeq(data, LAMBDA e :
                          IsLocationKey(e.key) /\ e.content # <<>>)
        IN  posted = [i \in 1..Len(wanted) |-> LocationComment(wanted[i])]

\* C6: when add_comments returns, the count equals the number of inline
\* publish calls it made and the file set equals the set of the paths of those
\* calls; skipped entries add to neither.
C6_ReturnMatchesPublished ==
    returned # None =>
        /\ returned[1].count = Len(InlineCalls)
        /\ returned[1].files = {InlineCalls[i].path : i \in 1..Len(InlineCalls)}

\* add_comments has returned from a mapping of which it published one entry
\* and skipped another
C6_Witness ==
    /\ returned # None
    /\ Len(data) = 2
    /\ Len(InlineCalls) = 1
    /\ returned[1].count = 1

\* C7: if the auth scheme, the workspace, the repository slug or the
\* pull-request identifier is missing, the run fails with a configuration
\* error before any network call.
C7_MissingConfigFailsBeforeNetwork ==
    LET constructed == pc # "new" /\ error # "ValueError"
        missing == \/ error = "ValueError"
                   \/ error = "EnvironmentError"
                   \/ constructed /\ (workspace = None \/ repo_slug = None)
    IN  missing =>
            /\ calls = <<>>
            /\ pc \in {"constructed", "failed"}

\* The positions of data that add_comments publishes, in order
RECURSIVE PublishedPositions(_)
PublishedPositions(n) ==
    IF n = 0 THEN <<>>
    ELSE IF ShouldPublish(data[n])
         THEN Append(PublishedPositions(n - 1), n)
         ELSE PublishedPositions(n - 1)

\* C8: the network calls are made in the order diff fetch, completion request,
\* summary comment, inline comments in the insertion order of the suggestions,
\* each at most once; a call that fails is the run's last, its failure ends the
\* run, and the comments posted before it stay posted.
C8_SequentialNoRetryNoRollback ==
    /\ \A i \in 1..Len(calls) :
           /\ i = 1 <=> calls[i].op = "diff"
           /\ i = 2 <=> calls[i].op = "completion"
           /\ calls[i].op = "summary" => i = 3
    /\ LET at == PublishedPositions(Len(data))
       IN  /\ Len(InlineCalls) <= Len(at)
           /\ \A j \in 1..Len(InlineCalls) :
                  InlinePayload(data[at[j]], InlineCalls[j].ok) = InlineCalls[j]
    /\ \A i \in 1..Len(calls) :
           ~calls[i].ok => /\ i = Len(calls)
                           /\ pc = "failed"
                           /\ error # ""
    /\ posted = SelectSeq(CommentCalls, LAMBDA c : c.ok)

\* The second inline comment failed after the summary and the first inline
\* comment were posted
C8_Witness ==
    /\ pc = "failed"
    /\ Len(calls) = 5
    /\ calls[5].op = "inline"
    /\ ~calls[5].ok
    /\ Len(posted) = 2

\* C9: every inline comment payload sent has a line that is at least 1 and a
\* body that is not empty.
C9_InlinePayloadWellFormed ==
    \A i \in 1..Len(calls) :
        calls[i].op = "inline" => calls[i].to >= 1 /\ calls[i].raw # <<>>

\* C10: a parsed response whose summary or suggestions is absent or empty is
\* accepted: the summary is posted only if it is not empty, no inline comment
\* is posted when there are no suggestions, and the run ends without an error
\* of its own (a failed comment post aside).
C10_PartialResponseAccepted ==
    code_review # None =>
        /\ pc = "failed" => error = "HTTPError"
        /\ CallsOf({"summary"}) # <<>> => Truthy(Get(code_review, "summary"))
        /\ ~Truthy(Get(code_review, "suggestions")) => InlineCalls = <<>>

====
